---- MODULE Spec2Model ----
(***************************************************************************)
(* Model of the spending-forecast pipeline of app/ml.py:                   *)
(*   remove_daily_outliers -> prepare_monthly_data -> cap_monthly_outliers *)
(*   -> forecast_spending (fallback / ensemble of two forecasters).        *)
(*                                                                         *)
(* Numbers.  Amounts are integers and every quantity the pipeline derives  *)
(* from them is kept as an exact integer multiple of a fixed unit:         *)
(*   daily totals           unit 1                                         *)
(*   monthly totals         unit 1/MonthlyScale                            *)
(*   forecast result fields unit 1/ResultScale                             *)
(* Ratios (trend, mean) are records [num, den].  pandas' float64 rounding  *)
(* is not modelled.                                                        *)
(*                                                                         *)
(* Dates are <<month, day>>; a month-end timestamp is its month number.    *)
(* The transaction list is a bag of rows: the pipeline only groups and     *)
(* sums rows, so the order of the list is never observed.                  *)
(***************************************************************************)
EXTENDS Integers, Sequences, FiniteSets, Bags, TLC

\* ---------------------------------------------------------------- bounds
\* forecast_spending: the length of the list and the months it may span
MaxTxns == 3
MaxMonth == 6
\* prepare_monthly_data alone: longer lists over fewer months
MaxPrepTxns == 5
MaxPrepMonth == 3

Days == {1, 15}
Amounts == {-2, 0}
PredValues == {-1, 0, 1, 3}

\* ------------------------------------------------------ program constants
MinMonths == 6
Lags == 3
KNum == 3
KDen == 2
CapNum == 95
CapDen == 100
QuarterDen == 4

MonthlyScale == 2 * CapDen
ResultScale == QuarterDen * MonthlyScale

Dates == (1..MaxMonth) \X Days
Txn == [date : Dates, amount : Amounts]

PrepDates == (1..MaxPrepMonth) \X Days
PrepTxn == [date : PrepDates, amount : Amounts]

VARIABLES
    transactions,   \* the argument of forecast_spending, a bag of Txn
    pc,             \* "idle", "prepared", "returned" or "raised"
    error,          \* the exception forecast_spending raised, or "none"
    daily,          \* remove_daily_outliers: the daily totals
    daily_clean,    \* remove_daily_outliers: its return value
    grouped,        \* prepare_monthly_data: monthly, after the groupby
    filled,         \* prepare_monthly_data: monthly, after asfreq/fillna
    monthly,        \* prepare_monthly_data: its return value
    hw,             \* hw_pred, hw_lower, hw_upper
    rr,             \* rr_pred, rr_lower, rr_upper
    called,         \* the forecasters forecast_spending has called
    result,         \* the dictionary forecast_spending returns
    divs            \* the divisors of the divisions by last_month

vars == <<transactions, pc, error, daily, daily_clean, grouped, filled,
          monthly, hw, rr, called, result, divs>>

\* ------------------------------------------------------------ arithmetic
Abs(x) == IF x < 0 THEN -x ELSE x

Min(a, b) == IF a <= b THEN a ELSE b

Max(a, b) == IF a >= b THEN a ELSE b

RECURSIVE SumSeq(_)
SumSeq(s) == IF s = << >> THEN 0 ELSE Head(s) + SumSeq(Tail(s))

Ys(series) == [i \in 1..Len(series) |-> series[i].y]

Sorted(s) == SortSeq(s, LAMBDA a, b : a < b)

\* pandas Series.quantile(num/den), linear interpolation, of a non-empty
\* sequence of numbers; the value returned is den * quantile.
Quantile(s, num, den) ==
    LET srt == Sorted(s)
        n   == Len(srt)
        pos == num * (n - 1)
        i   == pos \div den
        r   == pos % den
    IN  IF r = 0 THEN den * srt[i + 1]
        ELSE den * srt[i + 1] + r * (srt[i + 2] - srt[i + 1])

\* pandas Series.median() of a non-empty sequence; returns 2 * median.
Median2(s) == Quantile(s, 1, 2)

\* --------------------------------------------------------------- dates
DateLess(a, b) == a[1] < b[1] \/ (a[1] = b[1] /\ a[2] < b[2])

RECURSIVE SortDates(_)
SortDates(S) ==
    IF S = {} THEN << >>
    ELSE LET d == CHOOSE x \in S : \A y \in S : x = y \/ DateLess(x, y)
         IN  <<d>> \o SortDates(S \ {d})

RECURSIVE SumSet(_, _)
SumSet(S, f) ==
    IF S = {} THEN 0
    ELSE LET x == CHOOSE y \in S : TRUE IN f[x] + SumSet(S \ {x}, f)

\* ------------------------------------------------- remove_daily_outliers
\* df['y'] = df['amount'].abs(), then groupby(date).sum(): one row per day
\* that has a transaction, ordered by day.
DailyTotals(txns) ==
    LET rows == BagToSet(txns)
        ds   == SortDates({t.date : t \in rows})
        tot(d) == SumSet({t \in rows : t.date = d},
                         [t \in rows |-> CopiesIn(t, txns) * Abs(t.amount)])
    IN  [i \in 1..Len(ds) |-> [ds |-> ds[i], y |-> tot(ds[i])]]

\* The bounds of the IQR rule, times QuarterDen * KDen.
IqrBounds(dly) ==
    LET q1  == Quantile(Ys(dly), 1, QuarterDen)
        q3  == Quantile(Ys(dly), 3, QuarterDen)
        iqr == q3 - q1
    IN  [lower |-> KDen * q1 - KNum * iqr,
         upper |-> KDen * q3 + KNum * iqr,
         iqr   |-> iqr]

InBounds_strict(y, b) ==
    /\ QuarterDen * KDen * y > b.lower
    /\ QuarterDen * KDen * y < b.upper

InBounds(y, b) ==
    /\ QuarterDen * KDen * y >= b.lower
    /\ QuarterDen * KDen * y <= b.upper

remove_daily_outliers(dly) ==
    IF dly = << >> THEN << >>
    ELSE LET b == IqrBounds(dly)
         IN  SelectSeq(dly, LAMBDA row : InBounds(row.y, b))

\* -------------------------------------------------- prepare_monthly_data
\* df.groupby(pd.Grouper(key='ds', freq='ME'))['y'].sum(): one bin per
\* calendar month from the month of the first row to the month of the last
\* row; the sum of a bin without rows is 0.
GroupByMonth(dc) ==
    IF dc = << >> THEN << >>
    ELSE LET first == dc[1].ds[1]
             last  == dc[Len(dc)].ds[1]
             inMonth(m) == SelectSeq(dc, LAMBDA row : row.ds[1] = m)
         IN  [i \in 1..(last - first + 1) |->
                 [ds |-> first + i - 1, y |-> SumSeq(Ys(inMonth(first + i - 1)))]]

asfreq_halfopen(series) ==
    IF series = << >> THEN << >>
    ELSE [i \in 1..(Len(series) - 1) |->
             [ds |-> series[i].ds, y |-> series[i].y, isna |-> FALSE]]

\* set_index('ds').asfreq('ME'): reindex on every month-end from the first
\* index to the last; a month that is not in the index gets NaN.
asfreq(series) ==
    IF series = << >> THEN << >>
    ELSE LET first == series[1].ds
             last  == series[Len(series)].ds
             at(m) == SelectSeq(series, LAMBDA row : row.ds = m)
         IN  [i \in 1..(last - first + 1) |->
                 IF at(first + i - 1) = << >>
                 THEN [ds |-> first + i - 1, y |-> 0, isna |-> TRUE]
                 ELSE [ds |-> first + i - 1, y |-> at(first + i - 1)[1].y,
                       isna |-> FALSE]]

\* fillna(median2 / 2); the result is in units of 1/MonthlyScale.
fillna(rows, median2) ==
    [i \in 1..Len(rows) |->
        [ds |-> rows[i].ds,
         y  |-> IF rows[i].isna THEN CapDen * median2
                ELSE MonthlyScale * rows[i].y]]

\* The cap: CapDen * (the CapNum/CapDen quantile of the series).
CapUpper(series) == Quantile(Ys(series), CapNum, CapDen)

Clip_lower(y, upper) == IF CapDen * y < upper THEN upper \div CapDen ELSE y

\* np.clip(y, None, upper)
Clip(y, upper) == IF CapDen * y > upper THEN upper \div CapDen ELSE y

cap_monthly_outliers(series) ==
    IF series = << >> THEN << >>
    ELSE LET upper == CapUpper(series)
         IN  [i \in 1..Len(series) |->
                 [ds |-> series[i].ds, y |-> Clip(series[i].y, upper)]]

\* pd.DataFrame(transactions): the columns are the keys of the rows, so a
\* frame built from the empty list has no column at all.
Columns(txns) ==
    IF txns = EmptyBag THEN {} ELSE {"date", "amount", "description"}

\* The series prepare_monthly_data computes, and the exception it raises
\* ("none" when it returns): df['date'] on a frame without that column is
\* a KeyError; the summary's strftime on the NaT of an empty series is a
\* ValueError.
prepare_monthly_data(txns) ==
    IF "date" \notin Columns(txns)
    THEN [error |-> "KeyError", daily |-> << >>, daily_clean |-> << >>,
          grouped |-> << >>, filled |-> << >>, monthly |-> << >>]
    ELSE LET dly == DailyTotals(txns)
             dc  == remove_daily_outliers(dly)
             grp == GroupByMonth(dc)
             fil == IF grp = << >> THEN << >>
                    ELSE fillna(asfreq(grp), Median2(Ys(grp)))
         IN  [error |-> IF fil = << >> THEN "ValueError" ELSE "none",
              daily |-> dly, daily_clean |-> dc, grouped |-> grp,
              filled |-> fil, monthly |-> cap_monthly_outliers(fil)]

\* ---------------------------------------------------------- forecasters
\* What a model fit does: it raises, or it yields a prediction.  The fits
\* are library code (statsmodels, scikit-learn); any outcome is possible.
Outcomes ==
    {[exc |-> TRUE, v |-> 0]} \cup {[exc |-> FALSE, v |-> p] : p \in PredValues}

\* 25th and 75th percentile of the monthly series, in result units.
CiLower(series) == Quantile(Ys(series), 1, QuarterDen)

CiUpper(series) == Quantile(Ys(series), 3, QuarterDen)

\* (None, None, None)
NoForecast == [set |-> FALSE, pred |-> 0, lower |-> 0, upper |-> 0]

forecast_holt_winters_modelci(series, out) ==
    IF out.exc THEN [raised |-> TRUE, val |-> NoForecast]
    ELSE [raised |-> FALSE,
          val |-> [set |-> TRUE, pred |-> ResultScale * out.v,
                   lower |-> ResultScale * out.v
                                 - (CiUpper(series) - CiLower(series)),
                   upper |-> ResultScale * out.v
                                 + (CiUpper(series) - CiLower(series))]]

forecast_holt_winters(series, out) ==
    IF out.exc THEN [raised |-> TRUE, val |-> NoForecast]
    ELSE [raised |-> FALSE,
          val |-> [set |-> TRUE, pred |-> ResultScale * out.v,
                   lower |-> CiLower(series), upper |-> CiUpper(series)]]

\* shift(1..lags) then dropna: the first `lags` rows are dropped.
create_lagged_features(series, lags) ==
    IF Len(series) <= lags THEN << >>
    ELSE SubSeq(series, lags + 1, Len(series))

forecast_robust_regression(series, out) ==
    IF create_lagged_features(series, Lags) = << >> \/ out.exc
    THEN [raised |-> TRUE, val |-> NoForecast]
    ELSE [raised |-> FALSE,
          val |-> [set |-> TRUE, pred |-> ResultScale * out.v,
                   lower |-> CiLower(series), upper |-> CiUpper(series)]]

\* try: ... except Exception: nothing leaves the try statement, and the
\* triple keeps its None values when the call raised.
TryForecast_uncaught(call) ==
    [propagates |-> call.raised, val |-> call.val]

TryForecast(call) ==
    [propagates |-> FALSE, val |-> IF call.raised THEN NoForecast ELSE call.val]

\* --------------------------------------------------------- forecast_spending
Zero == [num |-> 0, den |-> 1]

Mean(series) == [num |-> SumSeq(Ys(series)), den |-> Len(series) * MonthlyScale]

LastMonth(series) ==
    IF Len(series) > 0 THEN QuarterDen * series[Len(series)].y ELSE 0

\* 2 * MonthlyScale * median, in result units.
MedianOf(series) == (ResultScale \div (2 * MonthlyScale)) * Median2(Ys(series))

UseFallback_five(series) == Len(series) < MinMonths - 1

UseFallback(series) == Len(series) < MinMonths

Included_nonneg(f) == f.set /\ f.pred >= 0

Included(f) == f.set /\ f.pred > 0

Contributors(h, r) ==
    (IF Included(h) THEN <<h>> ELSE << >>) \o (IF Included(r) THEN <<r>> ELSE << >>)

RECURSIVE MinSeq(_)
MinSeq(s) == IF Len(s) = 1 THEN s[1] ELSE Min(s[1], MinSeq(Tail(s)))

RECURSIVE MaxSeq(_)
MaxSeq(s) == IF Len(s) = 1 THEN s[1] ELSE Max(s[1], MaxSeq(Tail(s)))

\* ((pred - last_month) / last_month * 100) if last_month > 0 else 0.0,
\* with the divisors of the divisions it performs.
TrendPct_unguarded(pred, last) ==
    [value |-> [num |-> (pred - last) * 100, den |-> last], divs |-> {last}]

TrendPct(pred, last) ==
    IF last > 0
    THEN [value |-> [num |-> (pred - last) * 100, den |-> last], divs |-> {last}]
    ELSE [value |-> Zero, divs |-> {}]

MedianResult_swapped(series) ==
    [predicted_spending |-> MedianOf(series),
     lower |-> CiUpper(series),
     upper |-> CiLower(series),
     trend_percentage |-> Zero,
     average_monthly_spending |-> Mean(series)]

\* pred = median, ci = 25th/75th percentile, trend_pct = 0.0
MedianResult(series) ==
    [predicted_spending |-> MedianOf(series),
     lower |-> CiLower(series),
     upper |-> CiUpper(series),
     trend_percentage |-> Zero,
     average_monthly_spending |-> Mean(series)]

\* if preds: ... else: ...
Combine(series, h, r) ==
    LET c    == Contributors(h, r)
        pred == SumSeq([i \in 1..Len(c) |-> c[i].pred]) \div Len(c)
        tr   == TrendPct(pred, LastMonth(series))
    IN  IF c # << >>
        THEN [result |->
                 [predicted_spending |-> pred,
                  lower |-> MinSeq([i \in 1..Len(c) |-> c[i].lower]),
                  upper |-> MaxSeq([i \in 1..Len(c) |-> c[i].upper]),
                  trend_percentage |-> tr.value,
                  average_monthly_spending |-> Mean(series)],
              divs |-> tr.divs]
        ELSE [result |-> MedianResult(series), divs |-> {}]

NoResult ==
    [predicted_spending |-> 0, lower |-> 0, upper |-> 0,
     trend_percentage |-> Zero, average_monthly_spending |-> Zero]

\* The ensemble branch of forecast_spending, for one outcome of each fit.
ensemble(series, hwOut, rrOut) ==
    LET h == TryForecast(forecast_holt_winters(series, hwOut))
        r == TryForecast(forecast_robust_regression(series, rrOut))
        c == Combine(series, h.val, r.val)
    IN  IF h.propagates
        THEN [raised |-> TRUE, hw |-> NoForecast, rr |-> NoForecast,
              called |-> {"holt_winters"}, result |-> NoResult, divs |-> {}]
        ELSE IF r.propagates
        THEN [raised |-> TRUE, hw |-> h.val, rr |-> NoForecast,
              called |-> {"holt_winters", "robust_regression"},
              result |-> NoResult, divs |-> {}]
        ELSE [raised |-> FALSE, hw |-> h.val, rr |-> r.val,
              called |-> {"holt_winters", "robust_regression"},
              result |-> c.result, divs |-> c.divs]

\* The exceptions the caller reports as the user's to recover from
\* (HTTP 400); any other exception is an internal error (HTTP 500).
RecoverableErrors == {"ValueError"}

\* ------------------------------------------------------------------ state
Init ==
    /\ transactions = EmptyBag
    /\ pc = "idle"
    /\ error = "none"
    /\ daily = << >>
    /\ daily_clean = << >>
    /\ grouped = << >>
    /\ filled = << >>
    /\ monthly = << >>
    /\ hw = NoForecast
    /\ rr = NoForecast
    /\ called = {}
    /\ result = NoResult
    /\ divs = {}

\* The caller puts one more row in the list it will pass.
AddTransaction(t, max) ==
    /\ pc = "idle"
    /\ BagCardinality(transactions) < max
    /\ transactions' = transactions (+) SetToBag({t})
    /\ UNCHANGED <<pc, error, daily, daily_clean, grouped, filled, monthly,
                   hw, rr, called, result, divs>>

\* forecast_spending, first statement: prepare_monthly_data raises.
PrepareRaises ==
    /\ pc = "idle"
    /\ \E p \in {prepare_monthly_data(transactions)} :
          /\ p.error # "none"
          /\ error' = p.error
          /\ daily' = p.daily
          /\ daily_clean' = p.daily_clean
          /\ grouped' = p.grouped
          /\ filled' = p.filled
          /\ monthly' = p.monthly
    /\ pc' = "raised"
    /\ UNCHANGED <<transactions, hw, rr, called, result, divs>>

\* forecast_spending, first statement: prepare_monthly_data returns.
Prepare ==
    /\ pc = "idle"
    /\ \E p \in {prepare_monthly_data(transactions)} :
          /\ p.error = "none"
          /\ daily' = p.daily
          /\ daily_clean' = p.daily_clean
          /\ grouped' = p.grouped
          /\ filled' = p.filled
          /\ monthly' = p.monthly
    /\ pc' = "prepared"
    /\ UNCHANGED <<transactions, error, hw, rr, called, result, divs>>

\* forecast_spending: len(monthly) < 6, the median result is returned.
Fallback ==
    /\ pc = "prepared"
    /\ UseFallback(monthly)
    /\ result' = MedianResult(monthly)
    /\ pc' = "returned"
    /\ UNCHANGED <<transactions, error, daily, daily_clean, grouped, filled,
                   monthly, hw, rr, called, divs>>

\* forecast_spending: both forecasters are tried and combined.
Ensemble(hwOut, rrOut) ==
    /\ pc = "prepared"
    /\ ~UseFallback(monthly)
    /\ \E e \in {ensemble(monthly, hwOut, rrOut)} :
           /\ hw' = e.hw
           /\ rr' = e.rr
           /\ called' = e.called
           /\ result' = e.result
           /\ divs' = e.divs
           /\ pc' = IF e.raised THEN "raised" ELSE "returned"
           /\ error' = IF e.raised THEN "Exception" ELSE error
    /\ UNCHANGED <<transactions, daily, daily_clean, grouped, filled, monthly>>

Next ==
    \/ \E t \in Txn : AddTransaction(t, MaxTxns)
    \/ PrepareRaises
    \/ Prepare
    \/ Fallback
    \/ \E hwOut \in Outcomes, rrOut \in Outcomes : Ensemble(hwOut, rrOut)

Spec == Init /\ [][Next]_vars

\* prepare_monthly_data alone, on longer lists over fewer months.
NextPrepare ==
    \/ \E t \in PrepTxn : AddTransaction(t, MaxPrepTxns)
    \/ PrepareRaises
    \/ Prepare

SpecPrepare == Init /\ [][NextPrepare]_vars

\* ===================================================================
\* Properties
\* ===================================================================
Returned == pc = "returned"

Prepared == pc = "prepared"

\* The series has a row in month m.
HasDay(series, m) == \E j \in 1..Len(series) : series[j].ds[1] = m

\* The calendar months in which the list has a transaction.
ActiveMonths == {t.date[1] : t \in BagToSet(transactions)}

EnsemblePath == Returned /\ called # {}

HwIn == hw.set /\ hw.pred > 0

RrIn == rr.set /\ rr.pred > 0

\* C1: forecast_spending of the empty list raises the insufficient-data
\* error, an error the caller reports as recoverable, and returns nothing.
C1_EmptyListRaisesInsufficientData ==
    (transactions = EmptyBag /\ pc # "idle")
        => (pc = "raised" /\ error \in RecoverableErrors)

\* C2: forecast_spending of a non-empty list raises nothing: its
\* preparation returns a series, and the result it returns has
\* lower <= upper.
C2_ReturnsOrderedInterval ==
    /\ pc = "raised" => transactions = EmptyBag
    /\ (pc = "idle" /\ transactions # EmptyBag)
          => prepare_monthly_data(transactions).error = "none"
    /\ Prepared => monthly # << >>
    /\ Returned => result.lower <= result.upper

\* Both forecasters contribute and the interval is not a point.
C2_Witness ==
    /\ Returned
    /\ HwIn /\ RrIn
    /\ result.lower < result.upper

\* C3: the monthly series has one row per calendar month from the month of
\* the first surviving day to the month of the last, in increasing order.
C3_MonthlyContiguous ==
    Prepared =>
        LET first == daily_clean[1].ds[1]
            last  == daily_clean[Len(daily_clean)].ds[1]
        IN  /\ Len(monthly) = last - first + 1
            /\ \A i \in 1..Len(monthly) : monthly[i].ds = first + i - 1

\* A month without a surviving day lies inside the series.
C3_Witness ==
    /\ Prepared
    /\ Len(monthly) >= 3
    /\ \E i \in 1..Len(monthly) : ~HasDay(daily_clean, monthly[i].ds)

\* C4: before capping, a month of the range that has no surviving day holds
\* the median of the monthly totals computed before filling (so it holds 0
\* only when that median is 0).
C4_EmptyMonthsGetMedian ==
    Prepared =>
        \A i \in 1..Len(filled) :
            ~HasDay(daily_clean, filled[i].ds)
                => filled[i].y = CapDen * Median2(Ys(grouped))

\* C5: after the cap no monthly value exceeds the 95th percentile of the
\* series before the cap, and a value at or below it is unchanged.
C5_CappedAtPercentile ==
    Prepared =>
        \A i \in 1..Len(monthly) :
            /\ CapDen * monthly[i].y <= CapUpper(filled)
            /\ CapDen * filled[i].y <= CapUpper(filled)
                   => monthly[i].y = filled[i].y

\* The cap lowered a month.
C5_Witness ==
    /\ Prepared
    /\ \E i \in 1..Len(monthly) : monthly[i].y < filled[i].y
    /\ \E i \in 1..Len(monthly) : monthly[i].y = filled[i].y /\ filled[i].y > 0

\* C6 as stated: with transactions in fewer than 6 distinct months the
\* result has trend 0 and the median as prediction, and no forecaster ran.
C6_FewActiveMonthsFallback ==
    (Returned /\ Cardinality(ActiveMonths) < MinMonths)
        => /\ result.trend_percentage.num = 0
           /\ result.predicted_spending = MedianOf(monthly)
           /\ called = {}

\* C6 amended: with a monthly series of fewer than 6 rows the result has
\* trend 0 and the median as prediction, and no forecaster ran.
C6_ShortSeriesFallback ==
    (Returned /\ Len(monthly) < MinMonths)
        => /\ result.trend_percentage.num = 0
           /\ result.trend_percentage.den = 1
           /\ result.predicted_spending = MedianOf(monthly)
           /\ called = {}

\* A series of 5 months with a positive median went through the fallback.
C6_Witness ==
    /\ Returned
    /\ Len(monthly) = MinMonths - 1
    /\ result.predicted_spending > 0

\* C7: on the ensemble path a forecast counts only if it was produced and
\* is > 0; with one or two that count, the prediction is their mean, the
\* lower bound the least of their lower bounds, the upper bound the greatest
\* of their upper bounds.
C7_EnsembleCombination ==
    EnsemblePath =>
        /\ (HwIn /\ RrIn) =>
              /\ 2 * result.predicted_spending = hw.pred + rr.pred
              /\ result.lower = Min(hw.lower, rr.lower)
              /\ result.upper = Max(hw.upper, rr.upper)
        /\ (HwIn /\ ~RrIn) =>
              /\ result.predicted_spending = hw.pred
              /\ result.lower = hw.lower
              /\ result.upper = hw.upper
        /\ (~HwIn /\ RrIn) =>
              /\ result.predicted_spending = rr.pred
              /\ result.lower = rr.lower
              /\ result.upper = rr.upper

\* Two different predictions were averaged.
C7_Witness ==
    /\ EnsemblePath
    /\ HwIn /\ RrIn
    /\ hw.pred # rr.pred
    /\ result.lower < result.upper

\* C8: with 6 or more months every pair of forecaster outcomes ends in a
\* result, nothing is raised once a forecaster was called, and with no contributor
\* the result is the median, the 25th/75th percentiles and trend 0.
C8_ForecasterFailuresContained ==
    /\ (Prepared /\ Len(monthly) >= MinMonths) =>
          \A a \in Outcomes, b \in Outcomes : ~ensemble(monthly, a, b).raised
    /\ pc = "raised" => called = {}
    /\ (EnsemblePath /\ ~HwIn /\ ~RrIn) =>
          /\ result.predicted_spending = MedianOf(monthly)
          /\ result.lower = CiLower(monthly)
          /\ result.upper = CiUpper(monthly)
          /\ result.trend_percentage = Zero

\* Both fits raised and the median result came back.
C8_Witness ==
    /\ EnsemblePath
    /\ ~hw.set /\ ~rr.set
    /\ result.predicted_spending > 0

\* C9: when the last month of the series is 0 the trend is 0.0 and nothing
\* was divided by that total.
C9_ZeroLastMonthTrend ==
    (Returned /\ LastMonth(monthly) = 0)
        => /\ result.trend_percentage.num = 0
           /\ result.trend_percentage.den # 0
           /\ divs = {}

\* A forecaster contributed a positive prediction over a last month of 0.
C9_Witness ==
    /\ EnsemblePath
    /\ LastMonth(monthly) = 0
    /\ HwIn
    /\ result.predicted_spending > 0

\* C10 as stated: with an IQR of 0 the filter removes no day.
C10_ZeroIqrKeepsAll ==
    (pc # "idle" /\ daily # << >> /\ IqrBounds(daily).iqr = 0)
        => daily_clean = daily

\* C10 amended: with an IQR of 0 the filter keeps exactly the days whose
\* total is the quartile value; it removes no day when all totals are equal.
C10_ZeroIqrKeepsQuartileDays ==
    (pc # "idle" /\ daily # << >> /\ IqrBounds(daily).iqr = 0)
        => /\ daily_clean =
                 SelectSeq(daily, LAMBDA row :
                     QuarterDen * row.y = Quantile(Ys(daily), 1, QuarterDen))
           /\ (\A i, j \in 1..Len(daily) : daily[i].y = daily[j].y)
                 => daily_clean = daily

\* The IQR is 0 and a day with another total was removed.
C10_Witness ==
    /\ Prepared
    /\ IqrBounds(daily).iqr = 0
    /\ daily_clean # << >>
    /\ Len(daily_clean) < Len(daily)

\* C11: on every path that returns, the confidence interval is the 25th
\* and the 75th percentile of the monthly series, whichever forecasters
\* contributed and whatever they predicted.
C11_IntervalIsSeriesQuartiles ==
    Returned =>
        /\ result.lower = Quantile(Ys(monthly), 1, QuarterDen)
        /\ result.upper = Quantile(Ys(monthly), 3, QuarterDen)

\* One forecaster contributed and its prediction lies above the interval.
C11_Witness ==
    /\ EnsemblePath
    /\ HwIn /\ ~RrIn
    /\ Quantile(Ys(monthly), 1, QuarterDen) < Quantile(Ys(monthly), 3, QuarterDen)
    /\ result.predicted_spending > result.upper

====
